---- MODULE Spec2Model ----
(***************************************************************************)
(* Yacht-SEO: the description generator (generate_descriptions.py) and the *)
(* FastAPI service around it (api.py), as a state machine.                 *)
(*                                                                         *)
(* Strings are sequences of tokens: <<"ERROR: ", "timeout">> is the text   *)
(* "ERROR: timeout", the token " " is whitespace.  A record (a Python      *)
(* dict, which keeps insertion order) is a sequence of <<key, value>>      *)
(* pairs with pairwise different keys.                                     *)
(***************************************************************************)
EXTENDS Naturals, Sequences, FiniteSets, TLC

VARIABLES
    entry,             \* the entry point of this execution
    env,               \* what the environment supplies: files, upload, request
    pc,                \* position of the running handler
    rows,              \* process_csv: rows read from the input CSV
    idx,               \* process_csv: number of rows the loop has finished
    infile,            \* the input CSV on disk
    attempt,           \* generate: attempts made so far for the current row
    out_rows,          \* process_csv: output rows
    total_prompt,      \* process_csv: run total of prompt tokens
    total_completion,  \* process_csv: run total of completion tokens
    calls,             \* external calls issued so far (client.chat.completions.create)
    hist,              \* per finished row: the calls made for it and the last response
    outfile,           \* the output CSV on disk
    cost,              \* the cost of the summary, in 10^-8 USD
    result,            \* how the run of the processor ended
    status,            \* the HTTP status of the response (0: none yet)
    job                \* the entry of the async job in app.state.jobs

vars == <<entry, env, pc, infile, rows, idx, attempt, out_rows, total_prompt,
          total_completion, calls, hist, outfile, cost, result, status, job>>

-----------------------------------------------------------------------------
(* Bounds of the model *)

MaxRows == 2

MaxUploadRows == 1

-----------------------------------------------------------------------------
(* Strings and dicts *)

Space == " "

RECURSIVE LStrip(_)
LStrip(s) == IF s # <<>> /\ Head(s) = Space THEN LStrip(Tail(s)) ELSE s

RECURSIVE RStrip(_)
RStrip(s) ==
    IF s # <<>> /\ s[Len(s)] = Space THEN RStrip(SubSeq(s, 1, Len(s) - 1)) ELSE s

\* str.strip()
Strip(s) == RStrip(LStrip(s))

Keys(r) == [j \in 1..Len(r) |-> r[j][1]]

HasKey(r, k) == \E j \in 1..Len(r) : r[j][1] = k

\* dict.get(k, d)
Get(r, k, d) ==
    IF HasKey(r, k) THEN r[CHOOSE j \in 1..Len(r) : r[j][1] = k][2] ELSE d

\* d[k] = v: in place when the key is there, at the end when it is not
SetItem(r, k, v) ==
    IF HasKey(r, k)
    THEN [j \in 1..Len(r) |-> IF r[j][1] = k THEN <<k, v>> ELSE r[j]]
    ELSE Append(r, <<k, v>>)

Range(s) == {s[j] : j \in 1..Len(s)}

-----------------------------------------------------------------------------
(* Input tables *)

\* csv.DictReader files the cells a row has beyond the header under the key None
RestKey == "<None>"

CsvRow(n, long) ==
    << <<"name", n>>, <<"notes", <<"teak">> >> >>
        \o (IF long THEN << <<RestKey, <<"more">> >> >> ELSE <<>>)

\* a row as long as the header, and one with a cell more
CsvRows == {CsvRow(<<"A">>, FALSE), CsvRow(<<"B">>, TRUE)}

CsvTables == UNION {[1..n -> CsvRows] : n \in 0..MaxRows}

-----------------------------------------------------------------------------
(* The external text-generation client *)

\* resp.usage: absent, a mapping, or an object with attributes
NoUsage == [shape |-> "none", counts |-> <<>>]

DictUsage ==
    [shape |-> "dict", counts |-> << <<"prompt_tokens", 2>>, <<"completion_tokens", 3>> >>]

ObjectUsage == [shape |-> "object", counts |-> << <<"prompt_tokens", 1>> >>]

\* messages of the exceptions the client raises
FailureMessages == {<<"timeout">>}

\* resp.choices[0].message.content is None: .strip() raises AttributeError
NoneStripMessage == <<"'NoneType' object has no attribute 'strip'">>

OkResponse(content, usage) ==
    [kind |-> "ok", content |-> content, usage |-> usage, msg |-> <<>>]

Responses ==
    {OkResponse(<<"X">>, DictUsage), OkResponse(<<Space, "Y", Space>>, ObjectUsage),
     OkResponse(<<"X">>, NoUsage)}
        \cup [kind : {"raise"}, content : {<<>>}, usage : {NoUsage}, msg : FailureMessages]
        \cup [kind : {"none"}, content : {<<>>}, usage : {NoUsage}, msg : {NoneStripMessage}]

-----------------------------------------------------------------------------
(* generate_descriptions.py *)

\* @retry(..., stop_max_attempt_number=5)
MaxAttempts == 5

\* MODEL_ID = os.getenv("GROQ_MODEL", "openai/gpt-oss-120b"), with e.groq_model
\* the value of the environment variable, "" when it is not set
MODEL_ID(e) == IF e.groq_model = "" THEN "openai/gpt-oss-120b" ELSE e.groq_model

TOKEN_PRICE_IN == 15     \* 0.15 / 1_000_000 USD, in 10^-8 USD
TOKEN_PRICE_OUT == 75    \* 0.75 / 1_000_000 USD, in 10^-8 USD

\* mutant of GenerateResult: the counts are read from a mapping only
GenerateResultDictOnly(resp) ==
    [ text |-> Strip(resp.content),
      prompt_tok |-> IF resp.usage.shape # "dict" THEN 0
                     ELSE Get(resp.usage.counts, "prompt_tokens", 0),
      completion_tok |-> IF resp.usage.shape # "dict" THEN 0
                         ELSE Get(resp.usage.counts, "completion_tokens", 0) ]

\* the body of generate after the call: (text, prompt_tok, completion_tok)
GenerateResult(resp) ==
    [ text |-> Strip(resp.content),
      prompt_tok |-> IF resp.usage.shape = "none" THEN 0
                     ELSE Get(resp.usage.counts, "prompt_tokens", 0),
      completion_tok |-> IF resp.usage.shape = "none" THEN 0
                         ELSE Get(resp.usage.counts, "completion_tokens", 0) ]

\* whether one attempt of generate ends in an exception
AttemptRaises(resp) == resp.kind # "ok"

\* mutants of StopRetrying: giving up after 3 attempts, or only after 6
StopRetryingEarly(n) == n >= 3

StopRetryingLate(n) == n >= MaxAttempts + 1

\* retrying's stop_after_attempt
StopRetrying(n) == n >= MaxAttempts

\* mutant of ErrorText: the message without the marker
ErrorTextBare(msg) == msg

\* f"ERROR: {str(e)}"
ErrorText(msg) == <<"ERROR: ">> \o msg

NoFile == [state |-> "missing", header |-> <<>>, table |-> <<>>]

CsvFile(header, table) == [state |-> "ok", header |-> header, table |-> table]

\* main: the input must exist, then process_csv runs
Main ==
    /\ entry = "cli" /\ pc = "main"
    /\ IF infile.state = "missing"
       THEN pc' = "exit" /\ result' = "input_not_found"
       ELSE pc' = "process_csv" /\ UNCHANGED result
    /\ UNCHANGED <<status, job, entry, env, infile, rows, idx, attempt, out_rows, total_prompt,
                   total_completion, calls, hist, outfile, cost>>

\* mutant of ReadInput: the rows are read while the loop runs, so a file that
\* cannot be read to its end fails after a call has been made
ReadInputLazily ==
    /\ pc = "process_csv"
    /\ IF infile.state # "ok"
       THEN /\ pc' = "raised" /\ result' = "load_failed"
            /\ calls' = calls + 1
            /\ UNCHANGED <<rows, idx, attempt, out_rows, total_prompt, total_completion>>
       ELSE /\ pc' = "loop"
            /\ rows' = infile.table
            /\ idx' = 0 /\ attempt' = 0
            /\ out_rows' = <<>>
            /\ total_prompt' = 0 /\ total_completion' = 0
            /\ UNCHANGED <<result, calls>>
    /\ UNCHANGED <<status, job, entry, env, infile, hist, outfile, cost>>

\* mutant of ReadInput: the totals are not set to zero
ReadInputKeepsTotals ==
    /\ pc = "process_csv"
    /\ IF infile.state # "ok"
       THEN /\ pc' = "raised" /\ result' = "load_failed"
            /\ UNCHANGED <<rows, idx, attempt, out_rows>>
       ELSE /\ pc' = "loop"
            /\ rows' = infile.table
            /\ idx' = 0 /\ attempt' = 0
            /\ out_rows' = <<>>
            /\ UNCHANGED result
    /\ UNCHANGED <<status, job, entry, env, infile, calls, hist, outfile, cost,
                   total_prompt, total_completion>>

\* process_csv up to the loop: read the rows, zero the totals
ReadInput ==
    /\ pc = "process_csv"
    /\ IF infile.state # "ok"
       THEN /\ pc' = "raised" /\ result' = "load_failed"
            /\ UNCHANGED <<rows, idx, attempt, out_rows, total_prompt, total_completion>>
       ELSE /\ pc' = "loop"
            /\ rows' = infile.table
            /\ idx' = 0 /\ attempt' = 0
            /\ out_rows' = <<>>
            /\ total_prompt' = 0 /\ total_completion' = 0
            /\ UNCHANGED result
    /\ UNCHANGED <<status, job, entry, env, infile, calls, hist, outfile, cost>>

\* mutant of InputAfterCopy: out_row = row, the assignment lands in the input row
InputAfterAlias(rs, j, text) == [rs EXCEPT ![j] = SetItem(@, "description", text)]

\* the loaded rows after out_row = row.copy(); out_row['description'] = text for
\* row j: the assignment goes to the copy
InputAfterCopy(rs, j, text) == rs

\* the success path of the loop body: copy the row, set its description
SuccessRow(row, res) == SetItem(row, "description", res.text)

\* mutant of ErrorRow: a fresh row holding only the error text
ErrorRowOnly(row, msg) == << <<"description", ErrorText(msg)>> >>

\* the except path of the loop body: copy the row, set the error text
ErrorRow(row, msg) == SetItem(row, "description", ErrorText(msg))

\* one attempt of generate returns: the row is appended, the totals grow
GenerateReturns ==
    /\ pc = "loop" /\ idx < Len(rows)
    /\ \E resp \in Responses :
        /\ ~AttemptRaises(resp)
        /\ LET res == GenerateResult(resp) IN
            /\ out_rows' = Append(out_rows, SuccessRow(rows[idx + 1], res))
            /\ total_prompt' = total_prompt + res.prompt_tok
            /\ total_completion' = total_completion + res.completion_tok
            /\ rows' = InputAfterCopy(rows, idx + 1, res.text)
        /\ hist' = Append(hist, [calls |-> attempt + 1, resp |-> resp,
                                 model |-> MODEL_ID(env)])
    /\ calls' = calls + 1
    /\ idx' = idx + 1 /\ attempt' = 0
    /\ UNCHANGED <<status, job, entry, env, pc, infile, outfile, cost, result>>

\* one attempt of generate raises and the decorator tries again
GenerateRetries ==
    /\ pc = "loop" /\ idx < Len(rows)
    /\ \E resp \in Responses : AttemptRaises(resp)
    /\ ~StopRetrying(attempt + 1)
    /\ calls' = calls + 1
    /\ attempt' = attempt + 1
    /\ UNCHANGED <<status, job, entry, env, pc, infile, rows, idx, out_rows, total_prompt,
                   total_completion, hist, outfile, cost, result>>

\* mutant of GenerateGivesUp: no except branch, the exception ends the run
GenerateGivesUpAborts ==
    /\ pc = "loop" /\ idx < Len(rows)
    /\ StopRetrying(attempt + 1)
    /\ \E resp \in Responses : AttemptRaises(resp)
    /\ calls' = calls + 1
    /\ pc' = "raised" /\ result' = "generation_failed"
    /\ UNCHANGED <<status, job, entry, env, infile, rows, idx, attempt, out_rows,
                   total_prompt, total_completion, hist, outfile, cost>>

\* the last attempt of generate raises: the except branch appends the error row
GenerateGivesUp ==
    /\ pc = "loop" /\ idx < Len(rows)
    /\ StopRetrying(attempt + 1)
    /\ \E resp \in Responses :
        /\ AttemptRaises(resp)
        /\ out_rows' = Append(out_rows, ErrorRow(rows[idx + 1], resp.msg))
        /\ rows' = InputAfterCopy(rows, idx + 1, ErrorText(resp.msg))
        /\ hist' = Append(hist, [calls |-> attempt + 1, resp |-> resp,
                                 model |-> MODEL_ID(env)])
    /\ calls' = calls + 1
    /\ idx' = idx + 1 /\ attempt' = 0
    /\ UNCHANGED <<status, job, entry, env, pc, infile, total_prompt, total_completion,
                   outfile, cost, result>>

\* csv.DictWriter._dict_to_list: a key outside fieldnames raises ValueError
Writable(row, fieldnames) == \A j \in 1..Len(row) : row[j][1] \in Range(fieldnames)

\* the row as written: the fieldnames in order, a missing value as ''
WrittenRow(row, fieldnames) ==
    [j \in 1..Len(fieldnames) |-> <<fieldnames[j], Get(row, fieldnames[j], <<>>)>>]

\* the rows before the first one that cannot be written
WritablePrefix(rs, fieldnames) ==
    IF \A j \in 1..Len(rs) : Writable(rs[j], fieldnames)
    THEN Len(rs)
    ELSE (CHOOSE j \in 1..Len(rs) :
            /\ ~Writable(rs[j], fieldnames)
            /\ \A m \in 1..(j - 1) : Writable(rs[m], fieldnames)) - 1

\* the output file process_csv leaves for out_rows
WrittenFile(rs) ==
    IF rs = <<>>
    THEN CsvFile(<<>>, <<>>)
    ELSE LET fieldnames == Keys(rs[1])
             n == WritablePrefix(rs, fieldnames)
         IN  CsvFile(fieldnames, [j \in 1..n |-> WrittenRow(rs[j], fieldnames)])

WriteCompletes(rs) ==
    rs = <<>> \/ WritablePrefix(rs, Keys(rs[1])) = Len(rs)

\* mutant of Cost: the two prices swapped
CostSwapped(p, c) == p * TOKEN_PRICE_OUT + c * TOKEN_PRICE_IN

\* cost = total_prompt * TOKEN_PRICE_IN + total_completion * TOKEN_PRICE_OUT
Cost(p, c) == p * TOKEN_PRICE_IN + c * TOKEN_PRICE_OUT

\* mutant of WriteOutput: the output is written once a row has been handled,
\* whether or not rows are left
WriteOutputEarly ==
    /\ pc = "loop" /\ idx >= 1
    /\ IF ~env.writable
       THEN pc' = "raised" /\ result' = "write_failed" /\ UNCHANGED <<outfile, cost>>
       ELSE /\ outfile' = WrittenFile(out_rows)
            /\ IF WriteCompletes(out_rows)
               THEN /\ cost' = Cost(total_prompt, total_completion)
                    /\ pc' = "returned" /\ result' = "done"
               ELSE pc' = "raised" /\ result' = "write_failed" /\ UNCHANGED cost
    /\ UNCHANGED <<status, job, entry, env, infile, rows, idx, attempt, out_rows, total_prompt,
                   total_completion, calls, hist>>

\* process_csv after the loop: write the output CSV, print the cost summary
WriteOutput ==
    /\ pc = "loop" /\ idx = Len(rows)
    /\ IF ~env.writable
       THEN pc' = "raised" /\ result' = "write_failed" /\ UNCHANGED <<outfile, cost>>
       ELSE /\ outfile' = WrittenFile(out_rows)
            /\ IF WriteCompletes(out_rows)
               THEN /\ cost' = Cost(total_prompt, total_completion)
                    /\ pc' = "returned" /\ result' = "done"
               ELSE pc' = "raised" /\ result' = "write_failed" /\ UNCHANGED cost
    /\ UNCHANGED <<status, job, entry, env, infile, rows, idx, attempt, out_rows, total_prompt,
                   total_completion, calls, hist>>

-----------------------------------------------------------------------------
(* api.py: uploads *)

\* the model id of the calls api.py makes itself
FIXED_MODEL_ID == "openai/gpt-oss-120b"

NoUpload == [ext |-> "", shape |-> "", header |-> <<>>, rows |-> <<>>]

\* rows of an uploaded CSV or sheet: every row has the keys of the header
SheetRows ==
    { << <<"name", <<"A">> >>, <<"notes", <<"teak">> >> >>,
      << <<"name", <<"B">> >>, <<"notes", <<"oak">> >> >> }

\* objects of an uploaded JSON document: the keys may differ from row to row
JsonRows ==
    { << <<"name", <<"A">> >>, <<"notes", <<"teak">> >> >>,
      << <<"berth", <<"7">> >>, <<"name", <<"B">> >> >> }

TablesOver(S) == UNION {[1..n -> S] : n \in 0..MaxUploadRows}

Uploads ==
    {[ext |-> "csv", shape |-> "table", header |-> <<"name", "notes">>, rows |-> t] :
        t \in TablesOver(SheetRows)}
    \cup {[ext |-> "xlsx", shape |-> "sheet", header |-> <<"name", "notes">>, rows |-> t] :
        t \in TablesOver(SheetRows)}
    \cup {[ext |-> "json", shape |-> sh, header |-> <<>>, rows |-> t] :
        sh \in {"array", "data", "ndjson"}, t \in TablesOver(JsonRows)}
    \cup {[ext |-> e[1], shape |-> e[2], header |-> <<>>, rows |-> <<>>] :
        e \in {<<"json", "invalid">>, <<"json", "scalars">>, <<"xlsx", "invalid">>,
               <<"txt", "text">>}}

\* _rows_from_upload: the rows, or the exception raised
RowsFromUpload(u) ==
    CASE u.ext = "csv" -> [raises |-> "", rows |-> u.rows]
      [] u.ext = "json" /\ u.shape \in {"array", "data"} -> [raises |-> "", rows |-> u.rows]
      [] u.ext = "json" /\ u.shape = "scalars" -> [raises |-> "TypeError", rows |-> <<>>]
      [] u.ext = "json" /\ u.shape = "ndjson" /\ u.rows # <<>> ->
            [raises |-> "", rows |-> u.rows]
      [] u.ext = "json" -> [raises |-> "400 Invalid JSON", rows |-> <<>>]
      [] u.ext = "xlsx" /\ u.shape = "sheet" -> [raises |-> "", rows |-> u.rows]
      [] u.ext = "xlsx" -> [raises |-> "400 Invalid Excel file", rows |-> <<>>]
      [] OTHER -> [raises |-> "400 Unsupported file type", rows |-> <<>>]

Preferred ==
    <<"name", "length", "year", "price", "cabins", "guests", "crew",
      "watertoys", "location", "model", "builder">>

\* [k for k in rows[0].keys() if k not in preferred]
RECURSIVE ExtraKeys(_)
ExtraKeys(ks) ==
    IF ks = <<>> THEN <<>>
    ELSE (IF Head(ks) \in Range(Preferred) THEN <<>> ELSE <<Head(ks)>>)
            \o ExtraKeys(Tail(ks))

\* the file _write_rows_to_csv writes for rows rs with first row first
NormalizedFile(rs, first) ==
    LET fieldnames == Preferred \o ExtraKeys(Keys(first))
    IN  CsvFile(fieldnames, [j \in 1..Len(rs) |-> WrittenRow(rs[j], fieldnames)])

\* mutant of WriteRowsToCsv: no check for an empty list of rows
WriteRowsToCsvUnchecked(rs) ==
    [raises |-> "", file |-> NormalizedFile(rs, IF rs = <<>> THEN <<>> ELSE rs[1])]

\* _write_rows_to_csv: the file written, or the exception raised
WriteRowsToCsv(rs) ==
    IF rs = <<>>
    THEN [raises |-> "400 No rows found in uploaded file", file |-> CsvFile(<<>>, <<>>)]
    ELSE [raises |-> "", file |-> NormalizedFile(rs, rs[1])]

IsHTTPException(raises) == raises # "" /\ raises # "TypeError"

\* the try/except of the upload endpoints that fills the temporary input CSV
PrepareInput(u) ==
    LET parsed == RowsFromUpload(u)
        written == WriteRowsToCsv(parsed.rows)
        raises == IF parsed.raises # "" THEN parsed.raises ELSE written.raises
    IN  IF raises = "" THEN [outcome |-> "ok", raises |-> "", file |-> written.file]
        ELSE IF ~IsHTTPException(raises)
        THEN [outcome |-> "unhandled", raises |-> raises, file |-> CsvFile(<<>>, <<>>)]
        ELSE IF u.ext = "csv"
        THEN [outcome |-> "ok", raises |-> "", file |-> CsvFile(u.header, u.rows)]
        ELSE [outcome |-> "rejected", raises |-> raises, file |-> NoFile]

-----------------------------------------------------------------------------
(* api.py: the passphrase *)

NoRequest == [provided |-> "", x_passphrase |-> "", x_api_passphrase |-> "", query |-> ""]

Requests ==
    { [NoRequest EXCEPT !.provided = "YachtGPT"],
      NoRequest,
      [NoRequest EXCEPT !.provided = "guess", !.x_passphrase = "YachtGPT"] }

\* mutant of Candidate: the query string is looked at first
CandidateQueryFirst(req) ==
    IF req.query # "" THEN req.query
    ELSE IF req.provided # "" THEN req.provided
    ELSE IF req.x_passphrase # "" THEN req.x_passphrase
    ELSE req.x_api_passphrase

\* provided_passphrase or header_value or query_value
Candidate(req) ==
    IF req.provided # "" THEN req.provided
    ELSE IF req.x_passphrase # "" THEN req.x_passphrase
    ELSE IF req.x_api_passphrase # "" THEN req.x_api_passphrase
    ELSE req.query

\* _require_passphrase lets the request pass
PassphraseAccepted(req) == Candidate(req) = "YachtGPT"

-----------------------------------------------------------------------------
(* api.py: POST /generate *)

\* generate_from_upload up to the call of process_csv
GenerateFromUploadBegins ==
    /\ entry = "generate" /\ pc = "request"
    /\ IF ~PassphraseAccepted(env.request)
       THEN status' = 401 /\ pc' = "responded" /\ UNCHANGED infile
       ELSE LET prep == PrepareInput(env.upload) IN
            /\ infile' = prep.file
            /\ CASE prep.outcome = "ok" -> pc' = "process_csv" /\ UNCHANGED status
                 [] prep.outcome = "rejected" -> pc' = "responded" /\ status' = 400
                 [] OTHER -> pc' = "responded" /\ status' = 500
    /\ UNCHANGED <<entry, env, rows, idx, attempt, out_rows, total_prompt,
                   total_completion, calls, hist, outfile, cost, result, job>>

\* generate_from_upload after process_csv: the response, the input file unlinked
GenerateFromUploadEnds ==
    /\ entry = "generate" /\ pc \in {"returned", "raised"}
    /\ status' = (IF pc = "returned" THEN 200 ELSE 500)
    /\ infile' = NoFile
    /\ pc' = "responded"
    /\ UNCHANGED <<entry, env, rows, idx, attempt, out_rows, total_prompt,
                   total_completion, calls, hist, outfile, cost, result, job>>

-----------------------------------------------------------------------------
(* api.py: POST /generate-with-prompt *)

\* generate_from_upload_with_prompt up to the call of the processor
WithPromptBegins ==
    /\ entry = "with_prompt" /\ pc = "request"
    /\ IF ~PassphraseAccepted(env.request)
       THEN status' = 401 /\ pc' = "responded" /\ UNCHANGED infile
       ELSE LET prep == PrepareInput(env.upload) IN
            /\ infile' = prep.file
            /\ CASE prep.outcome = "ok" -> pc' = "prompt_start" /\ UNCHANGED status
                 [] prep.outcome = "rejected" -> pc' = "responded" /\ status' = 400
                 [] OTHER -> pc' = "responded" /\ status' = 500
    /\ UNCHANGED <<entry, env, rows, idx, attempt, out_rows, total_prompt,
                   total_completion, calls, hist, outfile, cost, result, job>>

\* not system_prompt or not system_prompt.strip()
BlankPrompt(sp) == Strip(sp) = <<>>

\* _process_csv_with_system_prompt up to the loop
ProcessWithPromptStarts ==
    /\ pc = "prompt_start"
    /\ IF BlankPrompt(env.system_prompt)
       THEN pc' = "raised" /\ result' = "400 system_prompt must be a non-empty string"
            /\ UNCHANGED <<rows, idx, out_rows>>
       ELSE IF infile.table = <<>>
       THEN pc' = "raised" /\ result' = "400 No data rows found in the uploaded file"
            /\ UNCHANGED <<rows, idx, out_rows>>
       ELSE IF ~env.api_key
       THEN pc' = "raised" /\ result' = "500 GROQ_API_KEY is not set"
            /\ UNCHANGED <<rows, idx, out_rows>>
       ELSE /\ rows' = infile.table /\ idx' = 0 /\ out_rows' = <<>>
            /\ pc' = "prompt_loop" /\ UNCHANGED result
    /\ UNCHANGED <<entry, env, infile, attempt, total_prompt, total_completion,
                   calls, hist, outfile, cost, status, job>>

\* the description of one row: the stripped content, or the error text
PromptDescription(resp) ==
    IF resp.kind = "ok" THEN Strip(resp.content) ELSE ErrorText(resp.msg)

\* one turn of the loop: one call, no retry
ProcessWithPromptRow ==
    /\ pc = "prompt_loop" /\ idx < Len(rows)
    /\ \E resp \in Responses :
        /\ out_rows' = Append(out_rows,
                              SetItem(rows[idx + 1], "description", PromptDescription(resp)))
        /\ rows' = InputAfterCopy(rows, idx + 1, PromptDescription(resp))
        /\ hist' = Append(hist, [calls |-> 1, resp |-> resp, model |-> FIXED_MODEL_ID])
    /\ calls' = calls + 1
    /\ idx' = idx + 1
    /\ UNCHANGED <<entry, env, pc, infile, attempt, total_prompt,
                   total_completion, outfile, cost, result, status, job>>

\* _process_csv_with_system_prompt after the loop: write the output CSV
ProcessWithPromptWrites ==
    /\ pc = "prompt_loop" /\ idx = Len(rows)
    /\ IF env.writable /\ WriteCompletes(out_rows)
       THEN outfile' = WrittenFile(out_rows) /\ pc' = "returned" /\ result' = "done"
       ELSE /\ outfile' = (IF env.writable THEN WrittenFile(out_rows) ELSE outfile)
            /\ pc' = "raised" /\ result' = "write_failed"
    /\ UNCHANGED <<entry, env, infile, rows, idx, attempt, out_rows, total_prompt,
                   total_completion, calls, hist, cost, status, job>>

\* generate_from_upload_with_prompt after the processor: except Exception gives 500
WithPromptEnds ==
    /\ entry = "with_prompt" /\ pc \in {"returned", "raised"}
    /\ status' = (IF pc = "returned" THEN 200 ELSE 500)
    /\ infile' = NoFile
    /\ pc' = "responded"
    /\ UNCHANGED <<entry, env, rows, idx, attempt, out_rows, total_prompt,
                   total_completion, calls, hist, outfile, cost, result, job>>

-----------------------------------------------------------------------------
(* api.py: POST /generate-async and its background task *)

NoJob == [status |-> "none", error |-> "", finished_at |-> FALSE,
          input_csv |-> FALSE, output_csv |-> FALSE]

\* generate_async: register the job, schedule _process_job
GenerateAsync ==
    /\ entry = "job" /\ pc = "request"
    /\ IF ~PassphraseAccepted(env.request)
       THEN status' = 401 /\ pc' = "responded" /\ UNCHANGED job
       ELSE /\ job' = [NoJob EXCEPT !.status = "queued"]
            /\ status' = 200
            /\ pc' = "job_queued"
    /\ UNCHANGED <<entry, env, infile, rows, idx, attempt, out_rows, total_prompt,
                   total_completion, calls, hist, outfile, cost, result>>

\* _process_job: job['status'] = 'processing'
ProcessJobStarts ==
    /\ pc = "job_queued"
    /\ job' = [job EXCEPT !.status = "processing"]
    /\ pc' = "job_prepare"
    /\ UNCHANGED <<entry, env, infile, rows, idx, attempt, out_rows, total_prompt,
                   total_completion, calls, hist, outfile, cost, result, status>>

\* _process_job up to the call of process_csv
ProcessJobPrepares ==
    /\ pc = "job_prepare"
    /\ LET parsed == RowsFromUpload(env.upload)
           written == WriteRowsToCsv(parsed.rows)
           raises == IF parsed.raises # "" THEN parsed.raises ELSE written.raises
       IN  IF raises # ""
           THEN /\ job' = [job EXCEPT !.status = "failed", !.error = raises,
                                      !.finished_at = TRUE]
                /\ infile' = CsvFile(<<>>, <<>>)
                /\ pc' = "job_done"
           ELSE /\ job' = [job EXCEPT !.input_csv = TRUE, !.output_csv = TRUE]
                /\ infile' = written.file
                /\ pc' = "process_csv"
    /\ UNCHANGED <<entry, env, rows, idx, attempt, out_rows, total_prompt,
                   total_completion, calls, hist, outfile, cost, result, status>>

\* _process_job after process_csv: completed, or failed with the error
ProcessJobEnds ==
    /\ entry = "job" /\ pc \in {"returned", "raised"}
    /\ job' = (IF pc = "returned"
               THEN [job EXCEPT !.status = "completed", !.finished_at = TRUE]
               ELSE [job EXCEPT !.status = "failed", !.error = result,
                                !.finished_at = TRUE])
    /\ pc' = "job_done"
    /\ UNCHANGED <<entry, env, infile, rows, idx, attempt, out_rows, total_prompt,
                   total_completion, calls, hist, outfile, cost, result, status>>

-----------------------------------------------------------------------------
(* The executions *)

Env(w, req, u, sp, key) ==
    [writable |-> w, request |-> req, upload |-> u, system_prompt |-> sp, api_key |-> key,
     batch_size |-> 1, refine |-> FALSE, response |-> OkResponse(<<>>, NoUsage),
     groq_model |-> "", model_param |-> ""]

CliFiles ==
    {NoFile, [state |-> "unreadable", header |-> <<>>, table |-> <<>>]}
        \cup {CsvFile(<<"name", "notes">>, t) : t \in CsvTables}

SystemPrompts == {<<>>, <<Space>>, <<"Be brief">>}

InitCli ==
    /\ entry = "cli" /\ pc = "main"
    /\ env \in {Env(w, NoRequest, NoUpload, <<>>, TRUE) : w \in BOOLEAN}
    /\ infile \in CliFiles

InitApi ==
    /\ entry \in {"generate", "job"} /\ pc = "request"
    /\ env \in {Env(w, req, u, <<>>, TRUE) : w \in BOOLEAN, req \in Requests, u \in Uploads}
    /\ infile = NoFile

InitWithPrompt ==
    /\ entry = "with_prompt" /\ pc = "request"
    /\ env \in {Env(w, req, u, sp, key) : w \in BOOLEAN, req \in Requests, u \in Uploads,
                                         sp \in SystemPrompts, key \in BOOLEAN}
    /\ infile = NoFile

Init ==
    /\ (InitCli \/ InitApi \/ InitWithPrompt)
    /\ rows = <<>> /\ idx = 0 /\ attempt = 0
    /\ out_rows = <<>>
    /\ total_prompt = 0 /\ total_completion = 0
    /\ calls = 0
    /\ hist = <<>>
    /\ outfile = NoFile
    /\ cost = 0
    /\ result = "running"
    /\ status = 0
    /\ job = NoJob

Next ==
    \/ Main
    \/ ReadInput
    \/ GenerateReturns
    \/ GenerateRetries
    \/ GenerateGivesUp
    \/ WriteOutput
    \/ GenerateFromUploadBegins
    \/ GenerateFromUploadEnds
    \/ WithPromptBegins
    \/ ProcessWithPromptStarts
    \/ ProcessWithPromptRow
    \/ ProcessWithPromptWrites
    \/ WithPromptEnds
    \/ GenerateAsync
    \/ ProcessJobStarts
    \/ ProcessJobPrepares
    \/ ProcessJobEnds

Spec == Init /\ [][Next]_vars

\* one thread runs each handler to its end: a step that can be taken is taken
FairSpec == Spec /\ WF_vars(Next)

-----------------------------------------------------------------------------
(* run(input, output, batch_size, verbose, refine): the batch processor    *)
(* that app.py imports from generate_descriptions (app.py line 20) and     *)
(* calls at line 126.  generate_descriptions.py defines no run, and its    *)
(* process_csv has neither batches nor a refine pass, so run is modelled   *)
(* from the specification (4.2, steps 1 to 7).  The names of the two       *)
(* generated fields are those app.py reads at line 133.  A call of the     *)
(* client either returns at the first attempt or fails MaxAttempts times.  *)

MaxBatch == 2

\* the fixed delimiter between the segments of a batched response
Delimiter == "<delimiter>"

RunResponses ==
    { OkResponse(<<"X">>, DictUsage),
      OkResponse(<<"X", Delimiter, "Y">>, ObjectUsage),
      OkResponse(<<"X", Delimiter, "Y", Delimiter, "Z">>, NoUsage),
      [kind |-> "raise", content |-> <<>>, usage |-> NoUsage, msg |-> <<"timeout">>] }

\* what the refine call may answer for a description
RefineResponses(desc) ==
    { OkResponse(desc \o <<"-REFINED">>, DictUsage),
      OkResponse(<<"R", Space>>, ObjectUsage),
      [kind |-> "raise", content |-> <<>>, usage |-> NoUsage, msg |-> <<"timeout">>] }

RunTables == UNION {[1..n -> SheetRows] : n \in 0..MaxRows}

Min(a, b) == IF a <= b THEN a ELSE b

\* the text split on the delimiter
RECURSIVE Split(_)
Split(text) ==
    IF \A j \in 1..Len(text) : text[j] # Delimiter
    THEN <<text>>
    ELSE LET k == CHOOSE j \in 1..Len(text) :
                    /\ text[j] = Delimiter
                    /\ \A m \in 1..(j - 1) : text[m] # Delimiter
         IN  <<SubSeq(text, 1, k - 1)>> \o Split(SubSeq(text, k + 1, Len(text)))

\* the batch that starts after row i
BatchOf(rs, i, size) == SubSeq(rs, i + 1, Min(i + size, Len(rs)))

\* mutant of Distribute: on a mismatch the segments there are are handed out
\* and the rows left over get nothing
DistributeSegments(text, n, size) ==
    LET segs == Split(text)
    IN  [j \in 1..n |-> IF j <= Len(segs) THEN segs[j] ELSE <<>>]

\* step 4: the texts of the n rows of a batch, from the text returned
Distribute(text, n, size) ==
    IF size = 1
    THEN [j \in 1..n |-> text]
    ELSE LET segs == Split(text)
         IN  IF Len(segs) = n THEN segs ELSE [j \in 1..n |-> text]

\* tokens a call adds to a run total: nothing when it failed
UsageOf(resp, key) ==
    IF resp.kind = "ok"
    THEN (IF key = "prompt_tokens" THEN GenerateResult(resp).prompt_tok
          ELSE GenerateResult(resp).completion_tok)
    ELSE 0

CallsOf(resp) == IF resp.kind = "ok" THEN 1 ELSE MaxAttempts

\* step 1: load the records
RunLoads ==
    /\ entry = "run" /\ pc = "run"
    /\ IF infile.state # "ok"
       THEN /\ pc' = "raised" /\ result' = "load_failed"
            /\ UNCHANGED <<rows, idx, out_rows, total_prompt, total_completion>>
       ELSE /\ pc' = "batches"
            /\ rows' = infile.table /\ idx' = 0 /\ out_rows' = <<>>
            /\ total_prompt' = 0 /\ total_completion' = 0
            /\ UNCHANGED result
    /\ UNCHANGED <<entry, env, infile, attempt, calls, hist, outfile, cost, status, job>>

\* steps 2 to 5: one batch, one call, the text handed out to the rows
RunBatch ==
    /\ pc = "batches" /\ idx < Len(rows)
    /\ \E resp \in RunResponses :
        LET batch == BatchOf(rows, idx, env.batch_size)
            n == Len(batch)
            texts == IF resp.kind = "ok"
                     THEN Distribute(GenerateResult(resp).text, n, env.batch_size)
                     ELSE [j \in 1..n |-> ErrorText(resp.msg)]
        IN  /\ out_rows' = out_rows \o
                    [j \in 1..n |-> SetItem(batch[j], "seo_description", texts[j])]
            /\ total_prompt' = total_prompt + UsageOf(resp, "prompt_tokens")
            /\ total_completion' = total_completion + UsageOf(resp, "completion_tokens")
            /\ calls' = calls + CallsOf(resp)
            /\ hist' = Append(hist, [phase |-> "batch", start |-> idx, size |-> n,
                                     resp |-> resp])
            /\ idx' = idx + n
    /\ UNCHANGED <<entry, env, pc, infile, attempt, rows, outfile, cost, result,
                   status, job>>

\* the batches are done and a refine pass was asked for
RunStartsRefining ==
    /\ pc = "batches" /\ idx = Len(rows) /\ env.refine
    /\ pc' = "refining" /\ idx' = 0
    /\ UNCHANGED <<entry, env, infile, attempt, rows, out_rows, total_prompt,
                   total_completion, calls, hist, outfile, cost, result, status, job>>

\* mutant of RefinedRow: the refined text replaces the primary description
RefinedRowInPlace(row, text) == SetItem(row, "seo_description", text)

\* step 6: the refined text goes to a field of its own
RefinedRow(row, text) == SetItem(row, "seo_description_refined", text)

\* step 6: one refine call for one description
RunRefines ==
    /\ pc = "refining" /\ idx < Len(rows)
    /\ \E resp \in RefineResponses(Get(out_rows[idx + 1], "seo_description", <<>>)) :
        LET text == IF resp.kind = "ok" THEN GenerateResult(resp).text
                    ELSE ErrorText(resp.msg)
        IN  /\ out_rows' = [out_rows EXCEPT ![idx + 1] = RefinedRow(@, text)]
            /\ total_prompt' = total_prompt + UsageOf(resp, "prompt_tokens")
            /\ total_completion' = total_completion + UsageOf(resp, "completion_tokens")
            /\ calls' = calls + CallsOf(resp)
            /\ hist' = Append(hist, [phase |-> "refine", start |-> idx, size |-> 1,
                                     resp |-> resp])
            /\ idx' = idx + 1
    /\ UNCHANGED <<entry, env, pc, infile, attempt, rows, outfile, cost, result,
                   status, job>>

\* step 7: write the result set, compute the cost
RunWrites ==
    /\ idx = Len(rows)
    /\ (pc = "batches" /\ ~env.refine) \/ pc = "refining"
    /\ IF env.writable
       THEN /\ outfile' = WrittenFile(out_rows)
            /\ cost' = Cost(total_prompt, total_completion)
            /\ pc' = "returned" /\ result' = "done"
       ELSE pc' = "raised" /\ result' = "write_failed" /\ UNCHANGED <<outfile, cost>>
    /\ UNCHANGED <<entry, env, infile, attempt, rows, idx, out_rows, total_prompt,
                   total_completion, calls, hist, status, job>>

InitRun ==
    /\ entry = "run" /\ pc = "run"
    /\ env \in {[Env(w, NoRequest, NoUpload, <<>>, TRUE)
                    EXCEPT !.batch_size = size, !.refine = rf] :
                w \in BOOLEAN, size \in 1..MaxBatch, rf \in BOOLEAN}
    /\ infile \in {NoFile} \cup {CsvFile(<<"name", "notes">>, t) : t \in RunTables}
    /\ rows = <<>> /\ idx = 0 /\ attempt = 0
    /\ out_rows = <<>>
    /\ total_prompt = 0 /\ total_completion = 0
    /\ calls = 0
    /\ hist = <<>>
    /\ outfile = NoFile
    /\ cost = 0
    /\ result = "running"
    /\ status = 0
    /\ job = NoJob

NextRun ==
    \/ RunLoads
    \/ RunBatch
    \/ RunStartsRefining
    \/ RunRefines
    \/ RunWrites

SpecRun == InitRun /\ [][NextRun]_vars

-----------------------------------------------------------------------------
(* make_prompt: the user prompt of one yacht.  The prompt is modelled as   *)
(* the texts that fill the eleven slots of USER_PROMPT_TEMPLATE, in the    *)
(* order the slots occur in the template; the fixed text between the slots *)
(* is left out.  A field value is a string, None (a cell a short CSV row   *)
(* lacks, or a JSON null) or an integer (a JSON number).                   *)

\* the slots of USER_PROMPT_TEMPLATE, in template order
TemplateSlots ==
    <<"name", "builder", "model", "year", "length", "guests", "cabins", "crew",
      "price", "watertoys", "location">>

StrValue(s) == [t |-> "str", s |-> s, n |-> 0]

NoneValue == [t |-> "none", s |-> <<>>, n |-> 0]

IntValue(n) == [t |-> "int", s |-> <<>>, n |-> n]

DigitChars == <<"0", "1", "2", "3", "4", "5", "6", "7", "8", "9">>

\* the decimal digits of a natural number
RECURSIVE Digits(_)
Digits(n) ==
    IF n < 10 THEN <<DigitChars[n + 1]>>
    ELSE Digits(n \div 10) \o <<DigitChars[(n % 10) + 1]>>

\* format(value, ""): what str.format puts in a slot without a format spec
Format(v) ==
    CASE v.t = "str" -> v.s
      [] v.t = "none" -> <<"None">>
      [] v.t = "int" -> Digits(v.n)

\* mutant of Placeholder: one placeholder for every field
PlaceholderUniform(field) == StrValue(<<"N/A">>)

\* the default of row.get for a template field
Placeholder(field) ==
    IF field = "name" THEN StrValue(<<"Unknown">>) ELSE StrValue(<<"N/A">>)

make_prompt(row) ==
    [j \in 1..Len(TemplateSlots) |->
        Format(Get(row, TemplateSlots[j], Placeholder(TemplateSlots[j])))]

\* values a template field may hold
PromptValues == {StrValue(<<"Aria">>), StrValue(<<>>), NoneValue, IntValue(24)}

\* the record that has the fields of S, and perhaps a field outside the template
PromptRow(S, name, other, extra) ==
    LET all == [j \in 1..Len(Preferred) |->
                    <<Preferred[j], IF Preferred[j] = "name" THEN name ELSE other>>]
        Present(pair) == pair[1] \in S
    IN  SelectSeq(all, Present)
            \o (IF extra THEN << <<"notes", StrValue(<<"teak">>)>> >> ELSE <<>>)

PromptRows ==
    {PromptRow(S, name, other, extra) :
        S \in SUBSET Range(Preferred),
        name \in {StrValue(<<"Aria">>), NoneValue},
        other \in PromptValues,
        extra \in BOOLEAN}

\* the call make_prompt(row)
MakePrompt ==
    /\ entry = "make_prompt" /\ pc = "call"
    /\ result' = make_prompt(rows[1])
    /\ pc' = "returned"
    /\ UNCHANGED <<entry, env, rows, idx, infile, attempt, out_rows, total_prompt,
                   total_completion, calls, hist, outfile, cost, status, job>>

InitPrompt ==
    /\ entry = "make_prompt" /\ pc = "call"
    /\ env = Env(TRUE, NoRequest, NoUpload, <<>>, TRUE)
    /\ infile = NoFile
    /\ rows \in {<<r>> : r \in PromptRows}
    /\ idx = 0 /\ attempt = 0
    /\ out_rows = <<>>
    /\ total_prompt = 0 /\ total_completion = 0
    /\ calls = 0
    /\ hist = <<>>
    /\ outfile = NoFile
    /\ cost = 0
    /\ result = <<>>
    /\ status = 0
    /\ job = NoJob

NextPrompt == MakePrompt

SpecPrompt == InitPrompt /\ [][NextPrompt]_vars

-----------------------------------------------------------------------------
(* process_csv called again and again by one process, as the API server    *)
(* does for every request (api.py, generate_from_upload and _process_job). *)
(* Between two calls the model keeps the values the locals of the last     *)
(* call ended with; hist and calls restart with the call.                  *)

\* the next call of process_csv: another input, another output path
ProcessCsvAgain ==
    /\ entry = "process_csv" /\ pc \in {"returned", "raised"}
    /\ pc' = "process_csv"
    /\ infile' \in {CsvFile(<<"name", "notes">>, t) : t \in CsvTables}
    /\ outfile' = NoFile /\ result' = "running"
    /\ hist' = <<>> /\ calls' = 0
    /\ UNCHANGED <<entry, env, rows, idx, attempt, out_rows, total_prompt,
                   total_completion, cost, status, job>>

InitAgain ==
    /\ entry = "process_csv" /\ pc = "process_csv"
    /\ env \in {Env(w, NoRequest, NoUpload, <<>>, TRUE) : w \in BOOLEAN}
    /\ infile \in {CsvFile(<<"name", "notes">>, t) : t \in CsvTables}
    /\ rows = <<>> /\ idx = 0 /\ attempt = 0
    /\ out_rows = <<>>
    /\ total_prompt = 0 /\ total_completion = 0
    /\ calls = 0
    /\ hist = <<>>
    /\ outfile = NoFile
    /\ cost = 0
    /\ result = "running"
    /\ status = 0
    /\ job = NoJob

NextAgain ==
    \/ ReadInput
    \/ GenerateReturns
    \/ GenerateRetries
    \/ GenerateGivesUp
    \/ WriteOutput
    \/ ProcessCsvAgain

SpecAgain == InitAgain /\ [][NextAgain]_vars

-----------------------------------------------------------------------------
(* generate, one attempt that returns: every shape of resp.usage.          *)

MaxCount == 2

\* the usage records with any subset of the two counts, each count 0..MaxCount
UsageCounts ==
    {<<>>}
        \cup {<< <<"prompt_tokens", p>> >> : p \in 0..MaxCount}
        \cup {<< <<"completion_tokens", c>> >> : c \in 0..MaxCount}
        \cup {<< <<"prompt_tokens", p>>, <<"completion_tokens", c>> >> :
                p \in 0..MaxCount, c \in 0..MaxCount}

UsageRecords ==
    {NoUsage} \cup {[shape |-> sh, counts |-> cs] : sh \in {"dict", "object"}, cs \in UsageCounts}

UsageResponses ==
    {OkResponse(content, u) : content \in {<<"X">>, <<Space, "Y", Space>>, <<>>},
                              u \in UsageRecords}

\* generate(prompt) when the client returns env.response
Generate ==
    /\ entry = "generate()" /\ pc = "call"
    /\ result' = GenerateResult(env.response)
    /\ calls' = calls + 1
    /\ pc' = "returned"
    /\ UNCHANGED <<entry, env, rows, idx, infile, attempt, out_rows, total_prompt,
                   total_completion, hist, outfile, cost, status, job>>

InitUsage ==
    /\ entry = "generate()" /\ pc = "call"
    /\ env \in {[Env(TRUE, NoRequest, NoUpload, <<>>, TRUE) EXCEPT !.response = r] :
                    r \in UsageResponses}
    /\ infile = NoFile
    /\ rows = <<>> /\ idx = 0 /\ attempt = 0
    /\ out_rows = <<>>
    /\ total_prompt = 0 /\ total_completion = 0
    /\ calls = 0
    /\ hist = <<>>
    /\ outfile = NoFile
    /\ cost = 0
    /\ result = <<>>
    /\ status = 0
    /\ job = NoJob

NextUsage == Generate

SpecUsage == InitUsage /\ [][NextUsage]_vars

-----------------------------------------------------------------------------
(* POST /generate for a JSON array of several objects whose keys differ.   *)

MaxObjects == 2

JsonArrays == UNION {[1..n -> JsonRows] : n \in 1..MaxObjects}

InitJsonUpload ==
    /\ entry = "generate" /\ pc = "request"
    /\ env \in {Env(w, [NoRequest EXCEPT !.provided = "YachtGPT"],
                    [ext |-> "json", shape |-> "array", header |-> <<>>, rows |-> t],
                    <<>>, TRUE) :
                w \in BOOLEAN, t \in JsonArrays}
    /\ infile = NoFile
    /\ rows = <<>> /\ idx = 0 /\ attempt = 0
    /\ out_rows = <<>>
    /\ total_prompt = 0 /\ total_completion = 0
    /\ calls = 0
    /\ hist = <<>>
    /\ outfile = NoFile
    /\ cost = 0
    /\ result = "running"
    /\ status = 0
    /\ job = NoJob

NextJsonUpload ==
    \/ GenerateFromUploadBegins
    \/ ReadInput
    \/ GenerateReturns
    \/ GenerateRetries
    \/ GenerateGivesUp
    \/ WriteOutput
    \/ GenerateFromUploadEnds

SpecJsonUpload == InitJsonUpload /\ [][NextJsonUpload]_vars

-----------------------------------------------------------------------------
(* api.py: POST /generate-single, and the endpoints under every passphrase *)
(* a request can carry, with GROQ_MODEL set or not and a model parameter   *)
(* sent or not.                                                            *)

\* generate_single_yacht: the passphrase, the key, one call without retry
GenerateSingle ==
    /\ entry = "single" /\ pc = "request"
    /\ pc' = "responded"
    /\ IF ~PassphraseAccepted(env.request)
       THEN status' = 401 /\ UNCHANGED <<calls, hist, out_rows>>
       ELSE IF ~env.api_key
       THEN status' = 500 /\ UNCHANGED <<calls, hist, out_rows>>
       ELSE \E resp \in Responses :
            /\ calls' = calls + 1
            /\ hist' = Append(hist, [calls |-> 1, resp |-> resp, model |-> FIXED_MODEL_ID])
            /\ IF resp.kind = "ok"
               THEN /\ status' = 200
                    /\ out_rows' = << << <<"description", Strip(resp.content)>> >> >>
               ELSE status' = 500 /\ UNCHANGED out_rows
    /\ UNCHANGED <<entry, env, rows, idx, infile, attempt, total_prompt,
                   total_completion, outfile, cost, result, job>>

Passphrases == {"", "YachtGPT", "guess"}

\* every way a request can carry passphrases
AllRequests ==
    [provided : Passphrases, x_passphrase : Passphrases,
     x_api_passphrase : Passphrases, query : Passphrases]

OneRowUpload ==
    [ext |-> "csv", shape |-> "table", header |-> <<"name", "notes">>,
     rows |-> << << <<"name", <<"A">> >>, <<"notes", <<"teak">> >> >> >>]

InitEndpoints ==
    /\ entry \in {"generate", "job", "with_prompt", "single"} /\ pc = "request"
    /\ env \in {[Env(TRUE, req, OneRowUpload, <<"Be brief">>, TRUE)
                    EXCEPT !.groq_model = gm, !.model_param = mp] :
                req \in AllRequests, gm \in {"", "llama-3"}, mp \in {"", "mixtral"}}
    /\ infile = NoFile
    /\ rows = <<>> /\ idx = 0 /\ attempt = 0
    /\ out_rows = <<>>
    /\ total_prompt = 0 /\ total_completion = 0
    /\ calls = 0
    /\ hist = <<>>
    /\ outfile = NoFile
    /\ cost = 0
    /\ result = "running"
    /\ status = 0
    /\ job = NoJob

NextEndpoints ==
    \/ GenerateFromUploadBegins
    \/ GenerateFromUploadEnds
    \/ WithPromptBegins
    \/ ProcessWithPromptStarts
    \/ ProcessWithPromptRow
    \/ ProcessWithPromptWrites
    \/ WithPromptEnds
    \/ GenerateAsync
    \/ ProcessJobStarts
    \/ ProcessJobPrepares
    \/ ProcessJobEnds
    \/ GenerateSingle
    \/ ReadInput
    \/ GenerateReturns
    \/ GenerateRetries
    \/ GenerateGivesUp
    \/ WriteOutput

SpecEndpoints == InitEndpoints /\ [][NextEndpoints]_vars

-----------------------------------------------------------------------------
(* Two requests to POST /generate-async whose background tasks run at the  *)
(* same time (Starlette runs _process_job, a plain function, in its thread *)
(* pool).  Shared by the jobs: the registry app.state.jobs, the directory  *)
(* of temporary files, and the settings of the process (env).  Here pc,    *)
(* rows, idx, out_rows and hist hold one value per job (the locals of its  *)
(* _process_job and process_csv), job is the registry, a mapping from job  *)
(* ids to entries, and outfile the output files by path.  A call of        *)
(* generate returns at once or fails MaxAttempts times.                    *)

JobIds == {1, 2}

\* mutant of JobKey: every request gets the same job id
JobKeyShared(j) == 1

\* str(uuid.uuid4()): a key no other request has
JobKey(j) == j

\* input_csv.replace('.csv', '_output.csv') for the unique temporary name of job j
OutputPath(j) == j

JobUploads ==
    {[ext |-> "csv", shape |-> "table", header |-> <<"name", "notes">>, rows |-> t] :
        t \in TablesOver(SheetRows)}
    \cup {[ext |-> "txt", shape |-> "text", header |-> <<>>, rows |-> <<>>]}

JobResponses ==
    { OkResponse(<<"X">>, DictUsage),
      [kind |-> "raise", content |-> <<>>, usage |-> NoUsage, msg |-> <<"timeout">>] }

\* generate_async for request j: the job is registered, the task scheduled
JobRegistered(j) ==
    /\ pc[j] = "request"
    /\ job' = [job EXCEPT ![JobKey(j)] = [NoJob EXCEPT !.status = "queued"]]
    /\ pc' = [pc EXCEPT ![j] = "job_queued"]
    /\ UNCHANGED <<entry, env, infile, rows, idx, attempt, out_rows, total_prompt,
                   total_completion, calls, hist, outfile, cost, result, status>>

\* _process_job: job['status'] = 'processing'
JobStarts(j) ==
    /\ pc[j] = "job_queued"
    /\ job' = [job EXCEPT ![JobKey(j)].status = "processing"]
    /\ pc' = [pc EXCEPT ![j] = "job_prepare"]
    /\ UNCHANGED <<entry, env, infile, rows, idx, attempt, out_rows, total_prompt,
                   total_completion, calls, hist, outfile, cost, result, status>>

\* _process_job up to the loop of process_csv: the upload parsed and normalized
JobPrepares(j) ==
    /\ pc[j] = "job_prepare"
    /\ LET parsed == RowsFromUpload(env.upload[j])
           written == WriteRowsToCsv(parsed.rows)
           raises == IF parsed.raises # "" THEN parsed.raises ELSE written.raises
       IN  IF raises # ""
           THEN /\ job' = [job EXCEPT ![JobKey(j)].status = "failed",
                                      ![JobKey(j)].error = raises,
                                      ![JobKey(j)].finished_at = TRUE]
                /\ pc' = [pc EXCEPT ![j] = "job_done"]
                /\ UNCHANGED rows
           ELSE /\ job' = [job EXCEPT ![JobKey(j)].input_csv = TRUE,
                                      ![JobKey(j)].output_csv = TRUE]
                /\ rows' = [rows EXCEPT ![j] = written.file.table]
                /\ pc' = [pc EXCEPT ![j] = "loop"]
    /\ UNCHANGED <<entry, env, infile, idx, attempt, out_rows, total_prompt,
                   total_completion, calls, hist, outfile, cost, result, status>>

\* one turn of the loop of process_csv in job j
JobRow(j) ==
    /\ pc[j] = "loop" /\ idx[j] < Len(rows[j])
    /\ \E resp \in JobResponses :
        LET row == rows[j][idx[j] + 1]
            out == IF resp.kind = "ok" THEN SuccessRow(row, GenerateResult(resp))
                   ELSE ErrorRow(row, resp.msg)
        IN  /\ out_rows' = [out_rows EXCEPT ![j] = Append(@, out)]
            /\ hist' = [hist EXCEPT ![j] = Append(@, resp)]
            /\ calls' = calls + (IF resp.kind = "ok" THEN 1 ELSE MaxAttempts)
    /\ idx' = [idx EXCEPT ![j] = @ + 1]
    /\ UNCHANGED <<entry, env, pc, infile, rows, attempt, total_prompt,
                   total_completion, job, outfile, cost, result, status>>

\* the write of process_csv, then job['status'] = 'completed'
JobEnds(j) ==
    /\ pc[j] = "loop" /\ idx[j] = Len(rows[j])
    /\ outfile' = [outfile EXCEPT ![OutputPath(j)] = WrittenFile(out_rows[j])]
    /\ job' = [job EXCEPT ![JobKey(j)].status = "completed",
                          ![JobKey(j)].finished_at = TRUE]
    /\ pc' = [pc EXCEPT ![j] = "job_done"]
    /\ UNCHANGED <<entry, env, infile, rows, idx, attempt, out_rows, total_prompt,
                   total_completion, calls, hist, cost, result, status>>

InitJobs ==
    /\ entry = "jobs"
    /\ env \in {[Env(TRUE, [NoRequest EXCEPT !.provided = "YachtGPT"], NoUpload, <<>>, TRUE)
                    EXCEPT !.upload = u, !.groq_model = gm] :
                u \in [JobIds -> JobUploads], gm \in {"", "llama-3"}}
    /\ pc = [j \in JobIds |-> "request"]
    /\ rows = [j \in JobIds |-> <<>>]
    /\ idx = [j \in JobIds |-> 0]
    /\ out_rows = [j \in JobIds |-> <<>>]
    /\ hist = [j \in JobIds |-> <<>>]
    /\ job = [j \in JobIds |-> NoJob]
    /\ outfile = [j \in JobIds |-> NoFile]
    /\ infile = NoFile
    /\ attempt = 0
    /\ total_prompt = 0 /\ total_completion = 0
    /\ calls = 0
    /\ cost = 0
    /\ result = "running"
    /\ status = 0

NextJobs ==
    \E j \in JobIds :
        \/ JobRegistered(j)
        \/ JobStarts(j)
        \/ JobPrepares(j)
        \/ JobRow(j)
        \/ JobEnds(j)

SpecJobs == InitJobs /\ [][NextJobs]_vars

-----------------------------------------------------------------------------
(* The background task of POST /generate-async statement by statement, and *)
(* the two polling endpoints.  _process_job runs in a thread of the pool   *)
(* while GET /jobs/{id} and GET /jobs/{id}/result run on the event loop,   *)
(* so a poll can fall between any two assignments of the task.  Here       *)
(* result holds, per job, what the try block of _process_job raised, entry *)
(* the last poll and status its response; the other variables are as in    *)
(* the two-job executions above.                                           *)

\* the ids a poll can name: the two jobs and an id no request was given
PollIds == JobIds \cup {0}

NoPoll == [op |-> "none", id |-> 0]

\* the uploads of the polled jobs: a CSV of two rows, a CSV without rows
\* (refused by _write_rows_to_csv) and a file type that is refused
PollUploads ==
    {[ext |-> "csv", shape |-> "table", header |-> <<"name", "notes">>, rows |-> t] :
        t \in { << << <<"name", <<"A">> >>, <<"notes", <<"teak">> >> >>,
                   << <<"name", <<"B">> >>, <<"notes", <<"oak">> >> >> >>,
                <<>> }}
    \cup {[ext |-> "txt", shape |-> "text", header |-> <<>>, rows |-> <<>>]}

NoResponse == [code |-> 0, detail |-> "", body |-> NoJob, file |-> NoFile]

\* app.state.jobs.get(job_id): NoJob stands for None
JobsGet(k) == IF k \in JobIds THEN job[k] ELSE NoJob

\* _process_job from the temporary file to the call of process_csv
JobTaskPrepares(j) ==
    /\ pc[j] = "job_prepare"
    /\ LET parsed == RowsFromUpload(env.upload[j])
           written == WriteRowsToCsv(parsed.rows)
           raises == IF parsed.raises # "" THEN parsed.raises ELSE written.raises
       IN  IF raises # ""
           THEN /\ result' = [result EXCEPT ![j] = raises]
                /\ pc' = [pc EXCEPT ![j] = "except"]
                /\ UNCHANGED <<rows, job>>
           ELSE /\ job' = [job EXCEPT ![JobKey(j)].input_csv = TRUE,
                                      ![JobKey(j)].output_csv = TRUE]
                /\ rows' = [rows EXCEPT ![j] = written.file.table]
                /\ pc' = [pc EXCEPT ![j] = "loop"]
                /\ UNCHANGED result
    /\ UNCHANGED <<entry, env, infile, idx, attempt, out_rows, total_prompt,
                   total_completion, calls, hist, outfile, cost, status>>

\* the write of process_csv in job j: the output file, or the exception
JobTaskWrites(j) ==
    /\ pc[j] = "loop" /\ idx[j] = Len(rows[j])
    /\ IF env.writable /\ WriteCompletes(out_rows[j])
       THEN /\ outfile' = [outfile EXCEPT ![OutputPath(j)] = WrittenFile(out_rows[j])]
            /\ pc' = [pc EXCEPT ![j] = "returned"]
            /\ UNCHANGED result
       ELSE /\ result' = [result EXCEPT ![j] = "write_failed"]
            /\ pc' = [pc EXCEPT ![j] = "except"]
            /\ UNCHANGED outfile
    /\ UNCHANGED <<entry, env, infile, rows, idx, attempt, out_rows, total_prompt,
                   total_completion, calls, hist, job, cost, status>>

\* job['status'] = 'completed'
JobTaskCompleted(j) ==
    /\ pc[j] = "returned"
    /\ job' = [job EXCEPT ![JobKey(j)].status = "completed"]
    /\ pc' = [pc EXCEPT ![j] = "finished_at"]
    /\ UNCHANGED <<entry, env, infile, rows, idx, attempt, out_rows, total_prompt,
                   total_completion, calls, hist, outfile, cost, result, status>>

\* except Exception: job['status'] = 'failed'
JobTaskFailed(j) ==
    /\ pc[j] = "except"
    /\ job' = [job EXCEPT ![JobKey(j)].status = "failed"]
    /\ pc' = [pc EXCEPT ![j] = "error"]
    /\ UNCHANGED <<entry, env, infile, rows, idx, attempt, out_rows, total_prompt,
                   total_completion, calls, hist, outfile, cost, result, status>>

\* job['error'] = str(e)
JobTaskError(j) ==
    /\ pc[j] = "error"
    /\ job' = [job EXCEPT ![JobKey(j)].error = result[j]]
    /\ pc' = [pc EXCEPT ![j] = "finished_at"]
    /\ UNCHANGED <<entry, env, infile, rows, idx, attempt, out_rows, total_prompt,
                   total_completion, calls, hist, outfile, cost, result, status>>

\* job['finished_at'] = datetime.utcnow().isoformat(), the last statement of
\* both branches
JobTaskFinishedAt(j) ==
    /\ pc[j] = "finished_at"
    /\ job' = [job EXCEPT ![JobKey(j)].finished_at = TRUE]
    /\ pc' = [pc EXCEPT ![j] = "job_done"]
    /\ UNCHANGED <<entry, env, infile, rows, idx, attempt, out_rows, total_prompt,
                   total_completion, calls, hist, outfile, cost, result, status>>

\* one step of the background task of job j
JobTask(j) ==
    \/ JobStarts(j)
    \/ JobTaskPrepares(j)
    \/ JobRow(j)
    \/ JobTaskWrites(j)
    \/ JobTaskCompleted(j)
    \/ JobTaskFailed(j)
    \/ JobTaskError(j)
    \/ JobTaskFinishedAt(j)

\* get_job: the entry as it is at this moment, or 404
GetJob(k) ==
    /\ entry' = [op |-> "get_job", id |-> k]
    /\ status' = (IF JobsGet(k).status = "none"
                  THEN [NoResponse EXCEPT !.code = 404, !.detail = "Job not found"]
                  ELSE [NoResponse EXCEPT !.code = 200, !.body = JobsGet(k)])
    /\ UNCHANGED <<env, pc, infile, rows, idx, attempt, out_rows, total_prompt,
                   total_completion, calls, hist, outfile, cost, result, job>>

\* mutant of ResultResponse: the file is served as soon as it exists
ResultResponseAnyStatus(j, file) ==
    IF j.status = "none"
    THEN [NoResponse EXCEPT !.code = 404, !.detail = "Job not found"]
    ELSE IF ~j.output_csv \/ file.state = "missing"
    THEN [NoResponse EXCEPT !.code = 404, !.detail = "Result not available"]
    ELSE [NoResponse EXCEPT !.code = 200, !.file = file]

\* the body of get_job_result for the registry entry j (NoJob for None) and
\* the file at the path the entry records
ResultResponse(j, file) ==
    IF j.status = "none"
    THEN [NoResponse EXCEPT !.code = 404, !.detail = "Job not found"]
    ELSE IF j.status # "completed"
    THEN [NoResponse EXCEPT !.code = 409, !.detail = "Job not completed"]
    ELSE IF ~j.output_csv \/ file.state = "missing"
    THEN [NoResponse EXCEPT !.code = 404, !.detail = "Result not available"]
    ELSE [NoResponse EXCEPT !.code = 200, !.file = file]

\* get_job_result
GetJobResult(k) ==
    /\ entry' = [op |-> "get_job_result", id |-> k]
    /\ status' = ResultResponse(JobsGet(k),
                                IF k \in JobIds THEN outfile[OutputPath(k)] ELSE NoFile)
    /\ UNCHANGED <<env, pc, infile, rows, idx, attempt, out_rows, total_prompt,
                   total_completion, calls, hist, outfile, cost, result, job>>

InitPoll ==
    /\ entry = NoPoll
    /\ env \in {[Env(w, [NoRequest EXCEPT !.provided = "YachtGPT"], NoUpload, <<>>, TRUE)
                    EXCEPT !.upload = u] :
                w \in BOOLEAN, u \in [JobIds -> PollUploads]}
    /\ pc = [j \in JobIds |-> "request"]
    /\ rows = [j \in JobIds |-> <<>>]
    /\ idx = [j \in JobIds |-> 0]
    /\ out_rows = [j \in JobIds |-> <<>>]
    /\ hist = [j \in JobIds |-> <<>>]
    /\ job = [j \in JobIds |-> NoJob]
    /\ outfile = [j \in JobIds |-> NoFile]
    /\ result = [j \in JobIds |-> ""]
    /\ infile = NoFile
    /\ attempt = 0
    /\ total_prompt = 0 /\ total_completion = 0
    /\ calls = 0
    /\ cost = 0
    /\ status = NoResponse

\* the jobs alone: registration and the steps of the background tasks
NextJobTasks ==
    \E j \in JobIds :
        \/ JobRegistered(j)
        \/ JobTask(j)

\* Starlette runs the task of every registered job once the response to
\* POST /generate-async is sent, and the task is never cancelled
FairSpecJobTasks ==
    InitPoll /\ [][NextJobTasks]_vars /\ \A j \in JobIds : WF_vars(JobTask(j))

\* the jobs and the polls
NextPoll ==
    \/ \E j \in JobIds :
        \/ JobRegistered(j)
        \/ JobTask(j)
    \/ \E k \in PollIds :
        \/ GetJob(k)
        \/ GetJobResult(k)

SpecPoll == InitPoll /\ [][NextPoll]_vars

-----------------------------------------------------------------------------
(* Properties *)

\* the executions that run process_csv
UsesProcessCsv == entry \in {"cli", "generate", "job"}

IsPassthrough(pair) == pair[1] # "description"

\* a row without its generated-text field
Passthrough(r) == SelectSeq(r, IsPassthrough)

Description(r) == Get(r, "description", <<>>)

\* every field of row r is a field of row w, with the same value
CarriesFields(w, r) ==
    \A j \in 1..Len(r) : HasKey(w, r[j][1]) /\ Get(w, r[j][1], <<>>) = r[j][2]

\* the loop is over: the write has been tried
LoopOver == pc \in {"returned", "raised"} /\ result \in {"done", "write_failed"}

RowFailed(j) == hist[j].resp.kind # "ok"

IsErrorMarker(text) == text # <<>> /\ Head(text) = "ERROR: "

RECURSIVE SumCalls(_)
SumCalls(h) == IF h = <<>> THEN 0 ELSE Head(h).calls + SumCalls(Tail(h))

\* the count a returned response reports under key, 0 when it reports none
Reported(resp, key) ==
    IF resp.kind = "ok" /\ HasKey(resp.usage.counts, key)
    THEN Get(resp.usage.counts, key, 0) ELSE 0

RECURSIVE SumReported(_, _)
SumReported(h, key) ==
    IF h = <<>> THEN 0 ELSE Reported(Head(h).resp, key) + SumReported(Tail(h), key)

(* C1: the processor emits one output row per input row consumed, in input *)
(* order; output row j is input row j with the generated-text field set,  *)
(* all other fields and their order kept; once the loop is over there are *)
(* as many output rows as input rows, and a run that ends normally has    *)
(* written as many rows, row j carrying every field of input row j.       *)
C1_OneOutputPerInput ==
    /\ Len(out_rows) = idx
    /\ idx <= Len(rows)
    /\ \A j \in 1..Len(out_rows) :
        /\ HasKey(out_rows[j], "description")
        /\ Passthrough(out_rows[j]) = Passthrough(rows[j])
    /\ LoopOver => Len(out_rows) = Len(rows)
    /\ result = "done" =>
        /\ Len(outfile.table) = Len(rows)
        /\ \A j \in 1..Len(rows) : CarriesFields(outfile.table[j], Passthrough(rows[j]))

C1_Witness ==
    /\ entry = "cli" /\ result = "done"
    /\ Len(rows) >= 2 /\ rows[1] # rows[2]
    /\ RowFailed(1) /\ ~RowFailed(2)

(* C2: a row whose every attempt failed is emitted with the generated-text *)
(* field "ERROR: " followed by the message of the failure, and the run     *)
(* goes on: it is not aborted, and the rows after it are processed.        *)
C2_ExhaustedRowGetsErrorText ==
    /\ Len(hist) = Len(out_rows)
    /\ \A j \in 1..Len(hist) :
        RowFailed(j) =>
            /\ Description(out_rows[j]) = <<"ERROR: ">> \o hist[j].resp.msg
            /\ result \in {"running", "done", "write_failed"}
            /\ pc \in {"loop", "prompt_loop"} \/ Len(out_rows) = Len(rows)

C2_Witness ==
    /\ UsesProcessCsv /\ result = "done"
    /\ Len(rows) >= 2
    /\ RowFailed(1) /\ hist[1].calls = MaxAttempts
    /\ Description(out_rows[1]) = <<"ERROR: ", "timeout">>
    /\ Description(out_rows[2]) = <<"X">>

(* C3: retry transparency: a row for which generate fails fewer than 5     *)
(* times and then succeeds gets the text of the successful response        *)
(* (stripped, as generate returns it), never an error marker; an error     *)
(* marker appears only after 5 failed attempts.                            *)
C3_RetryTransparent ==
    UsesProcessCsv =>
        \A j \in 1..Len(hist) :
            /\ ~RowFailed(j) =>
                /\ hist[j].calls - 1 < MaxAttempts
                /\ Description(out_rows[j]) = Strip(hist[j].resp.content)
                /\ ~IsErrorMarker(Description(out_rows[j]))
            /\ IsErrorMarker(Description(out_rows[j])) => hist[j].calls = MaxAttempts

C3_Witness ==
    /\ UsesProcessCsv
    /\ \E j \in 1..Len(hist) :
        /\ ~RowFailed(j) /\ hist[j].calls = MaxAttempts
        /\ hist[j].resp.content = <<Space, "Y", Space>>
        /\ Description(out_rows[j]) = <<"Y">>

(* C4: the retry is bounded: generate issues at most 5 external calls for  *)
(* one prompt, every external call is one of them, and after the 5th      *)
(* failure the exception of that attempt reaches the except branch of the  *)
(* loop, which emits the error row; the run is not aborted.                *)
C4_RetryBounded ==
    UsesProcessCsv =>
        /\ attempt < MaxAttempts
        /\ calls = SumCalls(hist) + attempt
        /\ \A j \in 1..Len(hist) :
            /\ hist[j].calls \in 1..MaxAttempts
            /\ RowFailed(j) =>
                /\ hist[j].calls = MaxAttempts
                /\ out_rows[j] = SetItem(rows[j], "description",
                                         <<"ERROR: ">> \o hist[j].resp.msg)
        /\ pc = "raised" => result \in {"load_failed", "write_failed"}

C4_Witness ==
    /\ UsesProcessCsv /\ pc = "loop" /\ idx < Len(rows)
    /\ idx >= 1 /\ RowFailed(idx) /\ hist[idx].calls = MaxAttempts
    /\ calls = MaxAttempts * idx

(* C5: the cost of the summary is the sum of the prompt-token counts of    *)
(* the generation results returned during the run times the input price,   *)
(* plus the sum of their completion-token counts times the output price.   *)
C5_CostIsPricedTotals ==
    (UsesProcessCsv /\ result = "done") =>
        cost = SumReported(hist, "prompt_tokens") * TOKEN_PRICE_IN
                + SumReported(hist, "completion_tokens") * TOKEN_PRICE_OUT

C5_Witness ==
    /\ UsesProcessCsv /\ result = "done"
    /\ Len(hist) >= 2
    /\ hist[1].resp.usage = DictUsage /\ hist[2].resp.usage = ObjectUsage
    /\ cost = 3 * TOKEN_PRICE_IN + 3 * TOKEN_PRICE_OUT

\* the handler of the execution has ended
Finished ==
    \/ pc \in {"exit", "responded", "job_done"}
    \/ entry = "cli" /\ pc \in {"returned", "raised"}

EmptyFile == CsvFile(<<>>, <<>>)

\* the input is a table without rows, and the output path can be written
ZeroRowInput ==
    /\ env.writable
    /\ \/ entry = "cli" /\ infile.state = "ok" /\ infile.table = <<>>
       \/ /\ entry \in {"generate", "with_prompt", "job"}
          /\ env.request.provided = "YachtGPT"
          /\ env.upload.shape \in {"table", "sheet", "array", "data"}
          /\ env.upload.rows = <<>>

EndedWithInputError ==
    \/ entry = "cli" /\ result \in {"input_not_found", "load_failed"}
    \/ entry = "generate" /\ (status = 400 \/ (status = 500 /\ result = "running"))
    \/ /\ entry = "with_prompt"
       /\ \/ status = 400
          \/ status = 500 /\ result \in {"running", "400 No data rows found in the uploaded file"}
    \/ entry = "job" /\ job.status = "failed" /\ job.error # "write_failed"

\* the input cannot be loaded as a table: missing or unreadable file, invalid
\* or unsupported upload
BadInput ==
    \/ entry = "cli" /\ infile.state # "ok"
    \/ /\ entry \in {"generate", "with_prompt", "job"}
       /\ env.request.provided = "YachtGPT"
       /\ RowsFromUpload(env.upload).raises # ""

RowsFitHeader(t) ==
    \A j \in 1..Len(t) : HasKey(t[1], RestKey) \/ ~HasKey(t[j], RestKey)

(* C8: a run of process_csv whose input can be loaded reaches the write,   *)
(* whatever calls fail, and ends normally when the output can be written;  *)
(* it ends abnormally only when the input cannot be loaded or the output   *)
(* cannot be written.                                                      *)
C8_RunFinishes ==
    /\ (pc = "process_csv" /\ infile.state = "ok") ~> (result \in {"done", "write_failed"})
    /\ (pc = "process_csv" /\ infile.state = "ok" /\ env.writable
            /\ RowsFitHeader(infile.table)) ~> (result = "done")
    /\ []((UsesProcessCsv /\ pc = "raised") => result \in {"load_failed", "write_failed"})
    /\ [](result = "load_failed" => infile.state # "ok")
    /\ [](result = "write_failed" => (~env.writable \/ ~WriteCompletes(out_rows)))

C8_Witness ==
    /\ entry = "cli" /\ result = "done" /\ pc = "returned"
    /\ Len(rows) >= 2 /\ \A j \in 1..Len(rows) : RowFailed(j)


\* the batch calls of a run, in order
IsBatchCall(h) == h.phase = "batch"

IsRefineCall(h) == h.phase = "refine"

\* the text a returned response carries, spaces at its ends removed
ReturnedText(resp) == Strip(resp.content)

(* C9: a batch of more than one record whose call returned: when the text *)
(* splits on the delimiter into one segment per record, record j of the   *)
(* batch has segment j as its description; otherwise every record of the  *)
(* batch has the whole text; and the run does not fail for it: it ends    *)
(* abnormally only when the load or the write failed.                     *)
C9_BatchSplitOrFallback ==
    entry = "run" =>
        /\ \A k \in 1..Len(hist) :
            (IsBatchCall(hist[k]) /\ hist[k].size > 1 /\ hist[k].resp.kind = "ok") =>
                LET h == hist[k]
                    text == ReturnedText(h.resp)
                    segs == Split(text)
                IN  /\ h.start + h.size <= Len(out_rows)
                    /\ \A j \in 1..h.size :
                        Get(out_rows[h.start + j], "seo_description", <<>>) =
                            IF Len(segs) = h.size THEN segs[j] ELSE text
        /\ pc = "raised" => result \in {"load_failed", "write_failed"}

C9_Witness ==
    /\ entry = "run" /\ result = "done"
    /\ Len(hist) = 1 /\ hist[1].size = 2
    /\ hist[1].resp.kind = "ok" /\ Len(Split(ReturnedText(hist[1].resp))) = 3
    /\ Len(outfile.table) = 2
    /\ Get(outfile.table[2], "seo_description", <<>>) =
            <<"X", Delimiter, "Y", Delimiter, "Z">>

\* the refine call made for output row j
RefineCallOf(j) ==
    LET calls_made == SelectSeq(hist, IsRefineCall) IN calls_made[j].resp

(* C10: a run with the refine option that ends normally: every written    *)
(* row has a refined-text field beside its primary description; a refine  *)
(* call that returned left its text there, and when it answered with the  *)
(* primary description followed by "-REFINED" the primary description is  *)
(* still in its own field; the token totals are the sums over the batch   *)
(* calls and the refine calls together.                                   *)
C10_RefinedFieldAndTotals ==
    (entry = "run" /\ env.refine /\ result = "done") =>
        /\ Len(outfile.table) = Len(rows)
        /\ Len(SelectSeq(hist, IsRefineCall)) = Len(rows)
        /\ \A j \in 1..Len(rows) :
            LET w == outfile.table[j]
                r == RefineCallOf(j)
            IN  /\ HasKey(w, "seo_description") /\ HasKey(w, "seo_description_refined")
                /\ r.kind = "ok" =>
                    Get(w, "seo_description_refined", <<>>) = ReturnedText(r)
                /\ (r.kind = "ok" /\ r.usage = DictUsage) =>
                    ReturnedText(r) =
                        Get(w, "seo_description", <<>>) \o <<"-REFINED">>
        /\ total_prompt = SumReported(hist, "prompt_tokens")
        /\ total_completion = SumReported(hist, "completion_tokens")

C10_Witness ==
    /\ entry = "run" /\ env.refine /\ result = "done"
    /\ Len(rows) = 2 /\ env.batch_size = 1
    /\ Get(outfile.table[1], "seo_description", <<>>) = <<"X">>
    /\ Get(outfile.table[1], "seo_description_refined", <<>>) = <<"X", "-REFINED">>
    /\ Get(outfile.table[2], "seo_description_refined", <<>>) = <<"R">>
    /\ total_prompt = 2 + 2 + 2 + 1
    /\ total_completion = 3 + 3 + 3 + 0


\* the position of a field among the slots of the template
SlotOf(field) == CHOOSE j \in 1..Len(TemplateSlots) : TemplateSlots[j] = field

(* C11: make_prompt returns for every record; the slot of a field the     *)
(* record lacks holds "Unknown" for name and "N/A" for any other field,   *)
(* the slot of a field the record has holds its value as str.format       *)
(* renders it (a string as it is, None as "None", a number in decimal),   *)
(* and the record is left as it was.                                      *)
C11_PromptPlaceholders ==
    (entry = "make_prompt" /\ pc = "returned") =>
        /\ Len(result) = 11
        /\ \A f \in Range(Preferred) :
            result[SlotOf(f)] =
                IF HasKey(rows[1], f)
                THEN Format(Get(rows[1], f, NoneValue))
                ELSE (IF f = "name" THEN <<"Unknown">> ELSE <<"N/A">>)
        /\ rows[1] \in PromptRows

C11_Witness ==
    /\ entry = "make_prompt" /\ pc = "returned"
    /\ ~HasKey(rows[1], "name") /\ ~HasKey(rows[1], "builder")
    /\ HasKey(rows[1], "year") /\ Get(rows[1], "year", NoneValue) = IntValue(24)
    /\ result[1] = <<"Unknown">> /\ result[2] = <<"N/A">>
    /\ result[4] = <<"2", "4">>


\* the loop over the loaded rows is running
InLoop == pc \in {"loop", "prompt_loop"}

(* C12: handling a record leaves the loaded records as they were: no step *)
(* of the loop, on the success path or on the error path, changes the     *)
(* list of input records, no input record has the generated-text field,   *)
(* and output record j is input record j with that field added.           *)
C12_InputNotMutated ==
    /\ [][InLoop => rows' = rows]_vars
    /\ [](\A j \in 1..Len(out_rows) :
            /\ j <= Len(rows)
            /\ ~HasKey(rows[j], "description")
            /\ HasKey(out_rows[j], "description")
            /\ out_rows[j] = Append(rows[j], <<"description", Description(out_rows[j])>>))

C12_Witness ==
    /\ entry = "cli" /\ pc = "loop" /\ Len(out_rows) = 2
    /\ ~RowFailed(1) /\ RowFailed(2)
    /\ rows = infile.table
    /\ \A j \in 1..2 : ~HasKey(rows[j], "description")


(* C13: the two token totals are zero when a call of process_csv enters   *)
(* its loop, whatever an earlier call left; no turn of the loop lowers    *)
(* them; a record that ends in an error leaves both as they were; and at  *)
(* every moment of a call they are the sums over the records this call    *)
(* has handled.                                                           *)
C13_TotalsPerRun ==
    /\ [][(pc = "process_csv" /\ pc' = "loop") =>
                (total_prompt' = 0 /\ total_completion' = 0)]_vars
    /\ [][pc = "loop" =>
                (total_prompt' >= total_prompt /\ total_completion' >= total_completion)]_vars
    /\ [][(pc = "loop" /\ Len(hist') = Len(hist) + 1 /\ hist'[Len(hist')].resp.kind # "ok") =>
                (total_prompt' = total_prompt /\ total_completion' = total_completion)]_vars
    /\ [](pc \in {"loop", "returned"} =>
                /\ total_prompt = SumReported(hist, "prompt_tokens")
                /\ total_completion = SumReported(hist, "completion_tokens"))

\* a later call has entered its loop and handled a failing record, after a
\* call that ended with totals above zero (its cost is still there)
C13_Witness ==
    /\ entry = "process_csv" /\ pc = "loop"
    /\ Len(hist) = 1 /\ hist[1].resp.kind # "ok"
    /\ Len(out_rows) = 1 /\ Len(rows) = 2
    /\ total_prompt = 0 /\ total_completion = 0
    /\ cost = 4 * TOKEN_PRICE_IN + 6 * TOKEN_PRICE_OUT


\* the count a usage record carries under key, 0 when it carries none
CountIn(usage, key) ==
    IF usage.shape \in {"dict", "object"} /\ HasKey(usage.counts, key)
    THEN Get(usage.counts, key, 0) ELSE 0

(* C14: generate returns natural numbers as token counts for every shape  *)
(* of the usage record: the count under the key of a mapping or in the    *)
(* attribute of an object, 0 for each count that is missing, and 0 twice  *)
(* when the response has no usage record.                                 *)
C14_UsageShapes ==
    (entry = "generate()" /\ pc = "returned") =>
        /\ result.prompt_tok \in Nat /\ result.completion_tok \in Nat
        /\ result.prompt_tok = CountIn(env.response.usage, "prompt_tokens")
        /\ result.completion_tok = CountIn(env.response.usage, "completion_tokens")
        /\ env.response.usage = NoUsage =>
                (result.prompt_tok = 0 /\ result.completion_tok = 0)

C14_Witness ==
    /\ entry = "generate()" /\ pc = "returned"
    /\ env.response.usage = [shape |-> "object", counts |-> << <<"completion_tokens", 2>> >>]
    /\ result.prompt_tok = 0 /\ result.completion_tok = 2


\* the keys of the rows rs outside the preferred fields, in order of first occurrence
RECURSIVE ExtrasOf(_, _)
ExtrasOf(rs, seen) ==
    IF rs = <<>> THEN <<>>
    ELSE LET IsNew(k) == k \notin Range(Preferred) /\ k \notin seen
             new == SelectSeq(Keys(Head(rs)), IsNew)
         IN  new \o ExtrasOf(Tail(rs), seen \cup Range(new))

(* C15: the header of the output of POST /generate is the eleven          *)
(* preferred fields in their order, then every other field that occurs    *)
(* in an uploaded record, then the generated-text field; every field of   *)
(* every uploaded record is in the output record with its value.          *)
C15_HeaderKeepsEveryField ==
    (entry = "generate" /\ pc = "responded" /\ status = 200) =>
        /\ outfile.header = Preferred \o ExtrasOf(env.upload.rows, {}) \o <<"description">>
        /\ Len(outfile.table) = Len(env.upload.rows)
        /\ \A j \in 1..Len(env.upload.rows) : CarriesFields(outfile.table[j], env.upload.rows[j])


\* the first of the four places of a request that holds a passphrase holds the
\* right one: the explicit value, X-Passphrase, X-API-Passphrase, the query string
RightPassphrase(req) ==
    \/ req.provided = "YachtGPT"
    \/ req.provided = "" /\ req.x_passphrase = "YachtGPT"
    \/ req.provided = "" /\ req.x_passphrase = "" /\ req.x_api_passphrase = "YachtGPT"
    \/ /\ req.provided = "" /\ req.x_passphrase = "" /\ req.x_api_passphrase = ""
       /\ req.query = "YachtGPT"

(* C16: a request to a generation endpoint whose passphrase, taken from   *)
(* the explicit value, else the X-Passphrase header, else the             *)
(* X-API-Passphrase header, else the query string, is not "YachtGPT" is   *)
(* answered 401 and leaves no external call, no job and no temporary      *)
(* file; a request with the right passphrase is never answered 401.       *)
C16_PassphraseFirst ==
    /\ ~RightPassphrase(env.request) =>
        /\ pc \in {"request", "responded"}
        /\ pc = "responded" => status = 401
        /\ calls = 0 /\ hist = <<>>
        /\ job = NoJob
        /\ infile = NoFile /\ outfile = NoFile
    /\ RightPassphrase(env.request) => status # 401

C16_Witness ==
    /\ entry = "job" /\ pc = "responded" /\ status = 401
    /\ env.request.provided = "guess" /\ env.request.x_passphrase = "YachtGPT"
    /\ env.request.query = "YachtGPT"
    /\ job = NoJob /\ calls = 0


(* C17: every external call made while serving an API endpoint uses the   *)
(* model id "openai/gpt-oss-120b", whatever GROQ_MODEL holds and whatever *)
(* model the request names.                                               *)
C17_FixedModelEverywhere ==
    entry \in {"generate", "job", "with_prompt", "single"} =>
        \A k \in 1..Len(hist) : hist[k].model = "openai/gpt-oss-120b"

\* the endpoints that make the call themselves do use the fixed model id
FixedModelInOwnCalls ==
    entry \in {"with_prompt", "single"} =>
        \A k \in 1..Len(hist) : hist[k].model = "openai/gpt-oss-120b"


(* C18: records are handled one at a time in input order: a step makes at *)
(* most one external call, and makes it for record idx + 1 when exactly   *)
(* the records before it have their output records; an output record is   *)
(* appended alone and is the one of the next input record; the output     *)
(* file is written only when every record has its output record.          *)
C18_OneAtATimeInOrder ==
    /\ [][calls' # calls =>
            /\ calls' = calls + 1
            /\ Len(out_rows) = idx /\ idx < Len(rows)]_vars
    /\ [][Len(out_rows') > Len(out_rows) =>
            /\ Len(out_rows') = Len(out_rows) + 1
            /\ Passthrough(out_rows'[Len(out_rows')]) = rows[Len(out_rows) + 1]
            /\ SubSeq(out_rows', 1, Len(out_rows)) = out_rows]_vars
    /\ [][outfile' # outfile => (Len(out_rows) = Len(rows) /\ idx = Len(rows))]_vars

C18_Witness ==
    /\ entry = "cli" /\ result = "done"
    /\ Len(rows) = 2 /\ Len(outfile.table) = 2
    /\ calls >= 4
    /\ Passthrough(out_rows[1]) = rows[1] /\ Passthrough(out_rows[2]) = rows[2]
    /\ rows[1] # rows[2]


\* what job j ends with when nothing else runs: a function of its own upload
\* and of the answers its own calls got
AloneEntry(j) ==
    LET parsed == RowsFromUpload(env.upload[j])
        bad == parsed.raises # "" \/ parsed.rows = <<>>
    IN  [NoJob EXCEPT !.status = IF bad THEN "failed" ELSE "completed",
                      !.error = IF parsed.raises # "" THEN parsed.raises
                                ELSE IF bad THEN "400 No rows found in uploaded file"
                                ELSE "",
                      !.finished_at = TRUE,
                      !.input_csv = ~bad, !.output_csv = ~bad]

AloneDescriptions(j) ==
    [k \in 1..Len(hist[j]) |->
        IF hist[j][k].kind = "ok" THEN Strip(hist[j][k].content)
        ELSE <<"ERROR: ">> \o hist[j][k].msg]

ReadableUpload ==
    /\ env.request.provided = "YachtGPT"
    /\ RowsFromUpload(env.upload).raises = ""

(* C20: POST /generate-with-prompt with a system_prompt that is empty or  *)
(* only spaces, or with an upload that has no data rows, is answered 400  *)
(* and no external call is made.                                          *)
C20_BlankPromptIs400 ==
    (/\ entry = "with_prompt" /\ pc = "responded"
     /\ ReadableUpload
     /\ (Strip(env.system_prompt) = <<>> \/ env.upload.rows = <<>>)) =>
        (status = 400 /\ calls = 0)

\* the part of C20 that holds: such a request never leads to an external call
BlankPromptMakesNoCall ==
    (/\ entry = "with_prompt"
     /\ ReadableUpload
     /\ (Strip(env.system_prompt) = <<>> \/ env.upload.rows = <<>>)) =>
        (calls = 0 /\ status \in {0, 400, 500})

-----------------------------------------------------------------------------
(* The status of an async job *)

Terminal(j) == job[j].status \in {"completed", "failed"}

\* the moves of a status the claim allows
StatusMoves ==
    { <<"none", "queued">>, <<"queued", "processing">>,
      <<"processing", "completed">>, <<"processing", "failed">> }

\* every change of a job's status is one of StatusMoves
JobStatusOrder ==
    [][\A j \in JobIds :
          job'[j].status # job[j].status
              => <<job[j].status, job'[j].status>> \in StatusMoves]_vars

\* a registered job whose task runs ends completed or failed
JobEventuallyTerminal == \A j \in JobIds : (job[j].status = "queued") ~> Terminal(j)

\* a terminal status is never left
JobTerminalStays ==
    [][\A j \in JobIds : Terminal(j) => job'[j].status = job[j].status]_vars

\* finished_at and error are set only under a terminal and a failed status,
\* and a task that has returned has left them set as the status requires
JobStampedWhenTaskReturns ==
    \A j \in JobIds :
        /\ job[j].finished_at => Terminal(j)
        /\ job[j].error # "" => job[j].status = "failed"
        /\ pc[j] = "job_done"
               => /\ Terminal(j) /\ job[j].finished_at
                  /\ job[j].status = "failed" => job[j].error # ""

\* C21: an async job's status only moves queued -> processing -> completed
\* or queued -> processing -> failed; every registered job whose background
\* task runs eventually is completed or failed; a terminal status is never
\* left; in every state finished_at is set exactly when the status is
\* terminal and error is set exactly when the status is failed.
C21_StatusMachineAndStamps ==
    /\ JobStatusOrder
    /\ JobEventuallyTerminal
    /\ JobTerminalStays
    /\ [](\A j \in JobIds :
            /\ job[j].finished_at <=> Terminal(j)
            /\ job[j].error # "" <=> job[j].status = "failed")

\* what GET /jobs/{id} can return: a terminal status without finished_at
GetJobSeesUnstampedTerminal ==
    /\ entry.op = "get_job" /\ status.code = 200
    /\ status.body.status \in {"completed", "failed"}
    /\ ~status.body.finished_at

-----------------------------------------------------------------------------
(* The result of an async job *)

\* the step is a poll of the result of job id k (the jobs leave entry and
\* status alone)
ResultPolled(k) ==
    /\ <<entry, status>>' # <<entry, status>>
    /\ entry' = [op |-> "get_job_result", id |-> k]

\* the output of job j is on disk, one row per input row of the job, as
\* process_csv writes it
OutputWritten(j) ==
    /\ rows[j] # <<>> /\ Len(out_rows[j]) = Len(rows[j])
    /\ outfile[OutputPath(j)] = WrittenFile(out_rows[j])
    /\ Len(outfile[OutputPath(j)].table) = Len(rows[j])
    /\ \A n \in 1..Len(rows[j]) :
          /\ CarriesFields(outfile[OutputPath(j)].table[n], rows[j][n])
          /\ HasKey(outfile[OutputPath(j)].table[n], "description")

\* C22: GET /jobs/{id}/result serves a file only for a completed job: an
\* unknown id gets 404, a queued, processing or failed job 409, and a 200
\* carries the output file of a completed job; in every state a completed
\* job has its output_csv recorded and its output fully written, the write
\* having happened before the status became completed and the file being
\* left alone afterwards.
C22_ResultOnlyWhenCompleted ==
    /\ [][\A k \in PollIds :
            ResultPolled(k) =>
                /\ JobsGet(k).status = "none" => status'.code = 404
                /\ JobsGet(k).status \in {"queued", "processing", "failed"}
                       => status'.code = 409
                /\ status'.code = 200
                       => /\ JobsGet(k).status = "completed"
                          /\ status'.file = outfile[OutputPath(k)]
                          /\ OutputWritten(k)
                /\ status'.code \in {200, 404, 409}]_vars
    /\ [](\A j \in JobIds :
            job[j].status = "completed" => job[j].output_csv /\ OutputWritten(j))
    /\ [][\A j \in JobIds :
            /\ job'[j].status = "completed" /\ job[j].status # "completed"
                   => job[j].output_csv /\ OutputWritten(j)
            /\ job[j].status = "completed"
                   => outfile'[OutputPath(j)] = outfile[OutputPath(j)]]_vars

\* the file of job 1 has just been served while job 2 has failed
C22_Witness ==
    /\ entry = [op |-> "get_job_result", id |-> 1]
    /\ status.code = 200
    /\ status.file = outfile[OutputPath(1)] /\ Len(status.file.table) >= 1
    /\ job[1].status = "completed"
    /\ job[2].status = "failed"

====
